---- MODULE Spec2Model ----
(***************************************************************************)
(* Model of src/api/api.go: the npm dependency-tree resolver.              *)
(*                                                                         *)
(* Strings are modelled as sequences of one-character-class tokens:        *)
(* the version "1.2.5" is <<"1","2","5">>, the prerelease "1.3.0-beta" is   *)
(* <<"1","3","0","beta">>, the constraint "^1.2.0" is <<"^","1","2","0">>,  *)
(* the empty string is <<>>.  semver.NewVersion / semver.NewConstraint      *)
(* parse these token strings, Version.String() formats them back.          *)
(* Version numbers are single digits.  Build metadata is not modelled (the *)
(* registry publishes versions that are unique under semver precedence).   *)
(***************************************************************************)
EXTENDS Integers, Sequences, FiniteSets, TLC

(***************************************************************************)
(* Strings, versions and constraints (github.com/Masterminds/semver/v3 as  *)
(* used by highestCompatibleVersion and filterCompatibleVersions).         *)
(***************************************************************************)

\* the digits a version component is written with, and their values
DigitVal ==
    [d \in {"0", "1", "2", "3", "4", "5", "6", "7", "8", "9"} |->
        CASE d = "0" -> 0 [] d = "1" -> 1 [] d = "2" -> 2 [] d = "3" -> 3
          [] d = "4" -> 4 [] d = "5" -> 5 [] d = "6" -> 6 [] d = "7" -> 7
          [] d = "8" -> 8 [] d = "9" -> 9]

Digits == DOMAIN DigitVal

DigitStr(n) == CHOOSE d \in Digits : DigitVal[d] = n

PreTags == {"beta"}

ConstraintOps == {"^", "~", "=", ">=", "<"}

EmptyString == << >>

NoVersion == [major |-> 0, minor |-> 0, patch |-> 0, pre |-> ""]

\* semver.NewVersion(version): [ok, v]; ok = FALSE is the parse error
NewVersion(s) ==
    IF /\ Len(s) \in {3, 4}
       /\ \A i \in 1..3 : s[i] \in Digits
       /\ (Len(s) = 4 => s[4] \in PreTags)
    THEN [ok |-> TRUE,
          v  |-> [major |-> DigitVal[s[1]], minor |-> DigitVal[s[2]],
                  patch |-> DigitVal[s[3]],
                  pre   |-> IF Len(s) = 4 THEN s[4] ELSE ""]]
    ELSE [ok |-> FALSE, v |-> NoVersion]

\* Version.String()
VersionString(v) ==
    <<DigitStr(v.major), DigitStr(v.minor), DigitStr(v.patch)>>
        \o (IF v.pre = "" THEN << >> ELSE <<v.pre>>)

\* Version.Compare: -1, 0, 1 by major, minor, patch, then prerelease
\* (a prerelease precedes the release it belongs to)
Compare(a, b) ==
    IF a.major # b.major THEN (IF a.major < b.major THEN -1 ELSE 1)
    ELSE IF a.minor # b.minor THEN (IF a.minor < b.minor THEN -1 ELSE 1)
    ELSE IF a.patch # b.patch THEN (IF a.patch < b.patch THEN -1 ELSE 1)
    ELSE IF a.pre = b.pre THEN 0
    ELSE IF a.pre = "" THEN 1
    ELSE IF b.pre = "" THEN -1
    ELSE 0

LessThan(a, b) == Compare(a, b) < 0

\* semver.NewConstraint(constraintStr): [ok, op, con]; ok = FALSE is the
\* parse error.  "*" matches every release; a bare version means "=".
NewConstraint(s) ==
    IF s = <<"*">>
    THEN [ok |-> TRUE, op |-> "*", con |-> NoVersion]
    ELSE IF Len(s) >= 1 /\ s[1] \in ConstraintOps /\ NewVersion(Tail(s)).ok
    THEN [ok |-> TRUE, op |-> s[1], con |-> NewVersion(Tail(s)).v]
    ELSE IF NewVersion(s).ok
    THEN [ok |-> TRUE, op |-> "=", con |-> NewVersion(s).v]
    ELSE [ok |-> FALSE, op |-> "", con |-> NoVersion]

\* a caret range that stays within the minor version, as a tilde does
CaretCheckWithinMinor(c, v) ==
    /\ ~LessThan(v, c)
    /\ v.major = c.major
    /\ v.minor = c.minor

\* the caret range: ^x.y.z with x > 0 stays within major x, ^0.y.z with
\* y > 0 stays within minor y, ^0.0.z is exactly 0.0.z
CaretCheck(c, v) ==
    /\ ~LessThan(v, c)
    /\ IF c.major > 0 THEN v.major = c.major
       ELSE IF v.major > 0 THEN FALSE
       ELSE IF c.minor > 0 THEN v.minor = c.minor
       ELSE IF v.minor > 0 THEN FALSE
       ELSE v.patch = c.patch

\* the tilde range: ~x.y.z is >= x.y.z within the same major and minor
TildeCheck(c, v) ==
    /\ ~LessThan(v, c)
    /\ v.major = c.major
    /\ v.minor = c.minor

\* Constraints.Check(v): a prerelease version never satisfies a constraint
\* that names no prerelease
Check(c, v) ==
    /\ ~(v.pre # "" /\ c.con.pre = "")
    /\ CASE c.op = "*"  -> TRUE
         [] c.op = "^"  -> CaretCheck(c.con, v)
         [] c.op = "~"  -> TildeCheck(c.con, v)
         [] c.op = "="  -> Compare(v, c.con) = 0
         [] c.op = ">=" -> Compare(v, c.con) >= 0
         [] c.op = "<"  -> Compare(v, c.con) < 0

\* filterCompatibleVersions: ranges over the keys of pkgMeta.Versions in the
\* map's iteration order `order`, skips keys that are no version, keeps the
\* versions the constraint admits
RECURSIVE filterCompatibleVersions(_, _)
filterCompatibleVersions(constraint, order) ==
    IF order = << >> THEN << >>
    ELSE LET semVer == NewVersion(Head(order))
             rest   == filterCompatibleVersions(constraint, Tail(order))
         IN  IF ~semVer.ok THEN rest
             ELSE IF Check(constraint, semVer.v) THEN <<semVer.v>> \o rest
             ELSE rest

\* insertion of one version into an ascending collection
RECURSIVE InsertSorted(_, _)
InsertSorted(v, coll) ==
    IF coll = << >> THEN <<v>>
    ELSE IF LessThan(v, Head(coll)) THEN <<v>> \o coll
    ELSE <<Head(coll)>> \o InsertSorted(v, Tail(coll))

\* the collection left in the order the map was ranged in
Unsorted(coll) == coll

\* sort.Sort(filtered): ascending by Version.LessThan
RECURSIVE SortCollection(_)
SortCollection(coll) ==
    IF coll = << >> THEN << >>
    ELSE CHOOSE sorted \in {InsertSorted(Head(coll), rest) :
                               rest \in {SortCollection(Tail(coll))}} : TRUE

\* filtered[0] in place of filtered[len(filtered)-1]
PickFirst(sorted) == sorted[1]

\* filtered[len(filtered)-1]
PickVersion(sorted) == sorted[Len(sorted)]

\* a resolver that ignores the error of semver.NewConstraint and admits
\* every version when the constraint does not parse
highestCompatibleVersionUnchecked(constraintStr, order) ==
    LET parsed     == NewConstraint(constraintStr)
        constraint == IF parsed.ok THEN parsed ELSE NewConstraint(<<"*">>)
        filtered   == SortCollection(filterCompatibleVersions(constraint, order))
    IN  IF Len(filtered) = 0
        THEN [version |-> EmptyString, err |-> "NoCompatibleVersion"]
        ELSE [version |-> VersionString(PickVersion(filtered)), err |-> "nil"]

\* highestCompatibleVersion(constraintStr, versions): [version, err]
highestCompatibleVersion(constraintStr, order) ==
    LET constraint == NewConstraint(constraintStr)
        filtered   == SortCollection(filterCompatibleVersions(constraint, order))
    IN  IF ~constraint.ok
        THEN [version |-> EmptyString, err |-> "InvalidConstraint"]
        ELSE IF Len(filtered) = 0
        THEN [version |-> EmptyString, err |-> "NoCompatibleVersion"]
        ELSE [version |-> VersionString(PickVersion(filtered)), err |-> "nil"]


(***************************************************************************)
(* The registry (registry.npmjs.org): what fetchPackageMeta and            *)
(* fetchPackage read.  a@1.1.0 depends on "b"; b@1.0.1 depends on "c" and, *)
(* with a malformed constraint, on "e"; "d" depends on itself.  A name the *)
(* registry does not know ("e") has no versions.                           *)
(***************************************************************************)

V100 == <<"1", "0", "0">>
V101 == <<"1", "0", "1">>
V110 == <<"1", "1", "0">>

\* the keys of npmPackageMetaResponse.Versions for a package
RegistryVersions(name) ==
    CASE name = "a" -> {V100, V110, <<"2", "0", "0", "beta">>}
      [] name = "b" -> {V100, V101}
      [] name = "c" -> {V100}
      [] name = "d" -> {V100}
      [] OTHER      -> {}

NoDependencies == [x \in {} |-> EmptyString]

\* npmPackageResponse.Dependencies of a package version: name -> constraint
RegistryManifest(name, version) ==
    CASE name = "a" /\ version = V110 ->
            [x \in {"b"} |-> <<"^", "1", "0", "0">>]
      [] name = "b" /\ version = V101 ->
            [x \in {"c", "e"} |-> IF x = "c" THEN <<"~", "1", "0", "0">>
                                             ELSE <<"nonsense!!">>]
      [] name = "d" /\ version = V100 ->
            [x \in {"d"} |-> <<"*">>]
      [] OTHER -> NoDependencies

(***************************************************************************)
(* Bounds of the model.                                                    *)
(***************************************************************************)

\* number of registry calls that fail (transport or decode) in one run
MaxFaults == 1

\* depth below which resolveDependencies still starts children
MaxDepth == 2

\* the top-level requests (calls of packageHandler), served concurrently
Requests == {1, 2}

\* the (package, version) path variables the requests carry
RequestInputs ==
    { <<"a", <<"^", "1", "0", "0">>>>,
      <<"a", V110>>,
      <<"b", <<"nonsense!!">>>>,
      <<"c", <<">=", "1", "0", "1">>>>,
      <<"d", <<"^", "1", "0", "0">>>> }

(***************************************************************************)
(* State.                                                                  *)
(***************************************************************************)

VARIABLES
    PackageCache,   \* var PackageCache []*NpmPackageVersion: root pointers
    mtx,            \* var mtx sync.Mutex: 0 when free, else the holder
    req,            \* the running packageHandler calls
    nodes,          \* the heap of NpmPackageVersion values and, per node,
                    \* the resolveDependencies call that resolves it
    faults,         \* registry calls that have failed so far
    hcv             \* one call of highestCompatibleVersion on its own

vars == <<PackageCache, mtx, req, nodes, faults, hcv>>

\* a pointer to an NpmPackageVersion: the request that allocated it and the
\* dependency names leading to it from that request's root
Ptr(r, path) == [req |-> r, path |-> path]

RootOf(r) == Ptr(r, << >>)

ChildOf(n, dep) == Ptr(n.req, Append(n.path, dep))

Nil == Ptr(0, << >>)

IdleRequest ==
    [pc |-> "idle", pkgName |-> "", pkgVersion |-> EmptyString, wg |-> 0,
     cachepkg |-> Nil, status |-> 0, body |-> Nil]

IdleHcv == [pc |-> "idle", constraintStr |-> EmptyString, keys |-> {},
            order |-> << >>, version |-> EmptyString, err |-> "nil"]

Init ==
    /\ PackageCache = << >>
    /\ mtx = 0
    /\ req = [r \in Requests |-> IdleRequest]
    /\ nodes = [n \in {} |-> 0]
    /\ faults = 0
    /\ hcv = IdleHcv

\* &NpmPackageVersion{Name: name, Dependencies: map[string]*NpmPackageVersion{}}
\* together with the not yet started resolveDependencies call for it
NewNode(name, versionConstraint, pc) ==
    [Name |-> name, Version |-> EmptyString,
     Dependencies |-> [x \in {} |-> Nil],
     versionConstraint |-> versionConstraint,
     pc |-> pc, pkgMeta |-> {}, npmDeps |-> NoDependencies, todo |-> {},
     err |-> "nil", gets |-> 0, metaRes |-> "none", manifestRes |-> "none"]

SetNode(n, rec) == [x \in DOMAIN nodes \cup {n} |-> IF x = n THEN rec ELSE nodes[x]]


\* every order in which a range over a map with these keys can visit them
Orders(keys) ==
    {o \in [1..Cardinality(keys) -> keys] :
        \A i, j \in 1..Cardinality(keys) : o[i] = o[j] => i = j}

\* the outcomes of one registry call: answered, or failed in transport
\* (http.Get, io.ReadAll) or in decoding (json.Unmarshal)
Outcomes == IF faults < MaxFaults THEN {"ok", "transport", "decode"} ELSE {"ok"}

CountFault(outcome) == IF outcome = "ok" THEN faults ELSE faults + 1

(***************************************************************************)
(* packageHandler                                                          *)
(***************************************************************************)

\* a request arrives: mux.Vars(r) gives pkgName and pkgVersion
Arrive(r) ==
    /\ req[r].pc = "idle"
    /\ \A q \in Requests : q < r => req[q].pc # "idle"
    /\ \E in \in RequestInputs :
          req' = [req EXCEPT ![r].pc = "lookup", ![r].pkgName = in[1],
                             ![r].pkgVersion = in[2]]
    /\ UNCHANGED <<PackageCache, mtx, nodes, faults, hcv>>

\* GetPackageFromCache: mtx.Lock()
CacheLock(r) ==
    /\ req[r].pc = "lookup"
    /\ mtx = 0
    /\ mtx' = r
    /\ req' = [req EXCEPT ![r].pc = "scan"]
    /\ UNCHANGED <<PackageCache, nodes, faults, hcv>>

\* the scan of GetPackageFromCache: the first entry with this name whose
\* Version is the requested version string, or nil
CacheFind(name, version) ==
    LET hits == {i \in 1..Len(PackageCache) :
                    /\ nodes[PackageCache[i]].Name = name
                    /\ nodes[PackageCache[i]].Version = version}
    IN  IF hits = {} THEN Nil
        ELSE PackageCache[CHOOSE i \in hits : \A j \in hits : i <= j]

\* a scan that returns without mtx.Unlock()
CacheScanKeepsLock(r) ==
    /\ req[r].pc = "scan"
    /\ mtx = r
    /\ LET cachepkg == CacheFind(req[r].pkgName, req[r].pkgVersion)
       IN  req' = [req EXCEPT ![r].cachepkg = cachepkg,
                              ![r].pc = IF cachepkg = Nil THEN "miss" ELSE "hit"]
    /\ UNCHANGED <<PackageCache, mtx, nodes, faults, hcv>>

\* GetPackageFromCache: the scan and the deferred mtx.Unlock()
CacheScan(r) ==
    /\ req[r].pc = "scan"
    /\ mtx = r
    /\ LET cachepkg == CacheFind(req[r].pkgName, req[r].pkgVersion)
       IN  req' = [req EXCEPT ![r].cachepkg = cachepkg,
                              ![r].pc = IF cachepkg = Nil THEN "miss" ELSE "hit"]
    /\ mtx' = 0
    /\ UNCHANGED <<PackageCache, nodes, faults, hcv>>

\* a handler that enters resolveDependencies without wg.Add(1)
StartResolveUncounted(r) ==
    /\ req[r].pc = "miss"
    /\ req' = [req EXCEPT ![r].pc = "resolving"]
    /\ nodes' = SetNode(RootOf(r), NewNode(req[r].pkgName, req[r].pkgVersion, "meta"))
    /\ UNCHANGED <<PackageCache, mtx, faults, hcv>>

\* cachepkg == nil: wg.Add(1), rootPkg is allocated and
\* resolveDependencies(rootPkg, pkgVersion, &wg) is entered
StartResolve(r) ==
    /\ req[r].pc = "miss"
    /\ req' = [req EXCEPT ![r].pc = "resolving", ![r].wg = 1]
    /\ nodes' = SetNode(RootOf(r), NewNode(req[r].pkgName, req[r].pkgVersion, "meta"))
    /\ UNCHANGED <<PackageCache, mtx, faults, hcv>>

\* a wait on one counter shared by all the requests
WaitPassesGlobal(r) == \A q \in Requests : req[q].wg = 0

\* a handler that goes on as soon as its own call has returned
WaitSkipped(r) == TRUE

\* wg.Wait() lets the handler through
WaitPasses(r) == req[r].wg = 0

\* resolveDependencies(rootPkg, ...) has returned and wg.Wait() passes
Wait(r) ==
    /\ req[r].pc = "resolving"
    /\ nodes[RootOf(r)].pc = "done"
    /\ WaitPasses(r)
    /\ req' = [req EXCEPT ![r].pc = "store"]
    /\ UNCHANGED <<PackageCache, mtx, nodes, faults, hcv>>

\* AddPackageToCache: mtx.Lock()
StoreLock(r) ==
    /\ req[r].pc = "store"
    /\ mtx = 0
    /\ mtx' = r
    /\ req' = [req EXCEPT ![r].pc = "append"]
    /\ UNCHANGED <<PackageCache, nodes, faults, hcv>>

\* AddPackageToCache: the append and the deferred mtx.Unlock()
StoreAppend(r) ==
    /\ req[r].pc = "append"
    /\ mtx = r
    /\ PackageCache' = Append(PackageCache, RootOf(r))
    /\ mtx' = 0
    /\ req' = [req EXCEPT ![r].pc = "respond"]
    /\ UNCHANGED <<nodes, faults, hcv>>

\* a handler that answers 500 when resolveDependencies returned an error
RespondErrorStatus(r) ==
    /\ req[r].pc = "respond"
    /\ req' = [req EXCEPT ![r].pc = "done",
                          ![r].status = IF nodes[RootOf(r)].err = "nil"
                                        THEN 200 ELSE 500,
                          ![r].body = RootOf(r)]
    /\ UNCHANGED <<PackageCache, mtx, nodes, faults, hcv>>

\* json.MarshalIndent(rootPkg) and the 200 response (a tree of strings and
\* maps always marshals, so the 500 branch is not reachable)
Respond(r) ==
    /\ req[r].pc = "respond"
    /\ req' = [req EXCEPT ![r].pc = "done", ![r].status = 200,
                          ![r].body = RootOf(r)]
    /\ UNCHANGED <<PackageCache, mtx, nodes, faults, hcv>>

\* cachepkg != nil: json.MarshalIndent(cachepkg) and the 200 response
RespondHit(r) ==
    /\ req[r].pc = "hit"
    /\ req' = [req EXCEPT ![r].pc = "done", ![r].status = 200,
                          ![r].body = req[r].cachepkg]
    /\ UNCHANGED <<PackageCache, mtx, nodes, faults, hcv>>

(***************************************************************************)
(* resolveDependencies(pkg, versionConstraint, wg), one call per node      *)
(***************************************************************************)

\* a call that returns without wg.Done()
WgDoneMissing(n) == req

\* the deferred wg.Done() of the call for node n
WgDone(n) == [req EXCEPT ![n.req].wg = req[n.req].wg - 1]

\* the call returns err: the deferred wg.Done() runs, the locals are gone
Returned(node, err) ==
    [node EXCEPT !.pc = "done", !.err = err, !.pkgMeta = {},
                 !.npmDeps = NoDependencies, !.todo = {}]

\* a metadata fetch that is issued a second time when it fails
FetchMetaRetrying(n) ==
    /\ n \in DOMAIN nodes
    /\ nodes[n].pc = "meta"
    /\ \E outcome \in Outcomes :
          /\ faults' = CountFault(outcome)
          /\ IF outcome = "ok"
             THEN /\ nodes' = SetNode(n, [nodes[n] EXCEPT !.pc = "resolve",
                             !.gets = @ + 1, !.metaRes = outcome,
                             !.pkgMeta = RegistryVersions(nodes[n].Name)])
                  /\ req' = req
             ELSE /\ nodes' = SetNode(n, Returned([nodes[n] EXCEPT !.gets = @ + 2,
                             !.metaRes = outcome], "FetchError"))
                  /\ req' = WgDone(n)
    /\ UNCHANGED <<PackageCache, mtx, hcv>>

\* pkgMeta, err := fetchPackageMeta(pkg.Name); any failure returns err
FetchMeta(n) ==
    /\ n \in DOMAIN nodes
    /\ nodes[n].pc = "meta"
    /\ \E outcome \in Outcomes :
          /\ faults' = CountFault(outcome)
          /\ LET node == [nodes[n] EXCEPT !.gets = @ + 1, !.metaRes = outcome]
             IN  IF outcome = "ok"
                 THEN /\ nodes' = SetNode(n, [node EXCEPT !.pc = "resolve",
                                 !.pkgMeta = RegistryVersions(node.Name)])
                      /\ req' = req
                 ELSE /\ nodes' = SetNode(n, Returned(node, "FetchError"))
                      /\ req' = WgDone(n)
    /\ UNCHANGED <<PackageCache, mtx, hcv>>

\* concreteVersion, err := highestCompatibleVersion(versionConstraint,
\* pkgMeta), whatever the order of the range over pkgMeta.Versions; on
\* success pkg.Version = concreteVersion
ResolveVersion(n) ==
    /\ n \in DOMAIN nodes
    /\ nodes[n].pc = "resolve"
    /\ \E res \in {highestCompatibleVersion(nodes[n].versionConstraint, order) :
                        order \in Orders(nodes[n].pkgMeta)} :
          IF res.err = "nil"
          THEN /\ nodes' = SetNode(n, [nodes[n] EXCEPT !.pc = "manifest",
                                          !.Version = res.version])
               /\ req' = req
          ELSE /\ nodes' = SetNode(n, Returned(nodes[n], res.err))
               /\ req' = WgDone(n)
    /\ UNCHANGED <<PackageCache, mtx, faults, hcv>>

\* fetchPackage: what it returns as npmPkg.Dependencies once the body is
\* read; the result of json.Unmarshal is discarded, so a body that does not
\* decode leaves the zero value
ManifestDependencies(node, outcome) ==
    IF outcome = "ok" THEN RegistryManifest(node.Name, node.Version)
    ELSE NoDependencies

\* npmPkg, err := fetchPackage(pkg.Name, pkg.Version); a transport failure
\* returns err
FetchManifest(n) ==
    /\ n \in DOMAIN nodes
    /\ nodes[n].pc = "manifest"
    /\ \E outcome \in Outcomes :
          /\ faults' = CountFault(outcome)
          /\ LET node == [nodes[n] EXCEPT !.gets = @ + 1, !.manifestRes = outcome]
                 deps == ManifestDependencies(node, outcome)
             IN  IF outcome = "transport"
                 THEN /\ nodes' = SetNode(n, Returned(node, "FetchError"))
                      /\ req' = WgDone(n)
                 ELSE /\ nodes' = SetNode(n, [node EXCEPT !.pc = "range",
                                 !.npmDeps = deps, !.todo = DOMAIN deps])
                      /\ req' = req
    /\ UNCHANGED <<PackageCache, mtx, hcv>>

\* a child started without wg.Add(1)
WgAddMissing(n) == req

\* the counter after the wg.Add(1) that precedes a child's start
WgAdd(n) == [req EXCEPT ![n.req].wg = req[n.req].wg + 1]

\* a range that starts the child's goroutine and leaves the child out of
\* pkg.Dependencies
RangeDependencyGoFirst(n) ==
    /\ n \in DOMAIN nodes
    /\ nodes[n].pc = "range"
    /\ Len(n.path) < MaxDepth
    /\ \E dependencyName \in nodes[n].todo :
          LET dep == ChildOf(n, dependencyName)
              parent == [nodes[n] EXCEPT !.todo = @ \ {dependencyName}]
              child == NewNode(dependencyName, nodes[n].npmDeps[dependencyName], "meta")
          IN  nodes' = [x \in DOMAIN nodes \cup {dep} |->
                           IF x = n THEN parent
                           ELSE IF x = dep THEN child ELSE nodes[x]]
    /\ req' = WgAdd(n)
    /\ UNCHANGED <<PackageCache, mtx, faults, hcv>>

\* a range with a cycle guard: a dependency that names the package being
\* resolved or one of its ancestors is dropped, no child is started for it
RangeDependencyGuarded(n) ==
    /\ n \in DOMAIN nodes
    /\ nodes[n].pc = "range"
    /\ Len(n.path) < MaxDepth
    /\ \E dependencyName \in nodes[n].todo :
          LET dep == ChildOf(n, dependencyName)
              seen == {nodes[RootOf(n.req)].Name} \cup
                          {n.path[i] : i \in 1..Len(n.path)}
              parent == [nodes[n] EXCEPT !.pc = "go",
                           !.todo = @ \ {dependencyName},
                           !.Dependencies =
                               [x \in DOMAIN @ \cup {dependencyName} |->
                                   IF x = dependencyName THEN dep ELSE @[x]]]
              child == NewNode(dependencyName, nodes[n].npmDeps[dependencyName], "new")
          IN  IF dependencyName \in seen
              THEN /\ nodes' = SetNode(n, [nodes[n] EXCEPT
                                              !.todo = @ \ {dependencyName}])
                   /\ req' = req
              ELSE /\ nodes' = [x \in DOMAIN nodes \cup {dep} |->
                                   IF x = n THEN parent
                                   ELSE IF x = dep THEN child ELSE nodes[x]]
                   /\ req' = WgAdd(n)
    /\ UNCHANGED <<PackageCache, mtx, faults, hcv>>

\* one iteration of the range over npmPkg.Dependencies up to the go
\* statement: wg.Add(1), dep is allocated and stored in pkg.Dependencies
RangeDependency(n) ==
    /\ n \in DOMAIN nodes
    /\ nodes[n].pc = "range"
    /\ Len(n.path) < MaxDepth
    /\ \E dependencyName \in nodes[n].todo :
          LET dep == ChildOf(n, dependencyName)
              parent == [nodes[n] EXCEPT !.pc = "go",
                           !.todo = @ \ {dependencyName},
                           !.Dependencies =
                               [x \in DOMAIN @ \cup {dependencyName} |->
                                   IF x = dependencyName THEN dep ELSE @[x]]]
              child == NewNode(dependencyName, nodes[n].npmDeps[dependencyName], "new")
          IN  nodes' = [x \in DOMAIN nodes \cup {dep} |->
                           IF x = n THEN parent
                           ELSE IF x = dep THEN child ELSE nodes[x]]
    /\ req' = WgAdd(n)
    /\ UNCHANGED <<PackageCache, mtx, faults, hcv>>

\* go resolveDependencies(dep, dependencyVersionConstraint, wg)
GoChild(n) ==
    /\ n \in DOMAIN nodes
    /\ nodes[n].pc = "go"
    /\ \E dependencyName \in DOMAIN nodes[n].Dependencies :
          LET dep == nodes[n].Dependencies[dependencyName]
          IN  /\ nodes[dep].pc = "new"
              /\ nodes' = [nodes EXCEPT ![n].pc = "range", ![dep].pc = "meta"]
    /\ UNCHANGED <<PackageCache, mtx, req, faults, hcv>>

\* the range is over: return nil and the deferred wg.Done()
Return(n) ==
    /\ n \in DOMAIN nodes
    /\ nodes[n].pc = "range"
    /\ nodes[n].todo = {}
    /\ nodes' = SetNode(n, Returned(nodes[n], "nil"))
    /\ req' = WgDone(n)
    /\ UNCHANGED <<PackageCache, mtx, faults, hcv>>

Next ==
    \/ \E r \in Requests : Arrive(r)
    \/ \E r \in Requests : CacheLock(r)
    \/ \E r \in Requests : CacheScan(r)
    \/ \E r \in Requests : StartResolve(r)
    \/ \E r \in Requests : Wait(r)
    \/ \E r \in Requests : StoreLock(r)
    \/ \E r \in Requests : StoreAppend(r)
    \/ \E r \in Requests : Respond(r)
    \/ \E r \in Requests : RespondHit(r)
    \/ \E n \in DOMAIN nodes : FetchMeta(n)
    \/ \E n \in DOMAIN nodes : ResolveVersion(n)
    \/ \E n \in DOMAIN nodes : FetchManifest(n)
    \/ \E n \in DOMAIN nodes : RangeDependency(n)
    \/ \E n \in DOMAIN nodes : GoChild(n)
    \/ \E n \in DOMAIN nodes : Return(n)

Spec == Init /\ [][Next]_vars

\* a request that arrives once the requests before it are answered
ArriveInTurn(r) ==
    /\ \A q \in Requests : q < r => req[q].pc = "done"
    /\ Arrive(r)

\* the steps of the program with the requests arriving one after another
NextInTurn ==
    \/ \E r \in Requests : ArriveInTurn(r)
    \/ \E r \in Requests : CacheLock(r)
    \/ \E r \in Requests : CacheScan(r)
    \/ \E r \in Requests : StartResolve(r)
    \/ \E r \in Requests : Wait(r)
    \/ \E r \in Requests : StoreLock(r)
    \/ \E r \in Requests : StoreAppend(r)
    \/ \E r \in Requests : Respond(r)
    \/ \E r \in Requests : RespondHit(r)
    \/ \E n \in DOMAIN nodes : FetchMeta(n)
    \/ \E n \in DOMAIN nodes : ResolveVersion(n)
    \/ \E n \in DOMAIN nodes : FetchManifest(n)
    \/ \E n \in DOMAIN nodes : RangeDependency(n)
    \/ \E n \in DOMAIN nodes : GoChild(n)
    \/ \E n \in DOMAIN nodes : Return(n)

\* the goroutines are scheduled, the registry answers every call (with a
\* response or an error) and the mutex is handed on: a step that can be
\* taken is eventually taken
FairSpec == Init /\ [][NextInTurn]_vars /\ WF_vars(NextInTurn)


(***************************************************************************)
(* highestCompatibleVersion on its own: a constraint string and a metadata *)
(* response are drawn, the range over the response's Versions map visits   *)
(* the keys in any order, then the function returns.                       *)
(***************************************************************************)

\* most keys a drawn metadata response holds
MaxKeys == 5

ExampleVersions ==
    { <<"1", "1", "9">>, <<"1", "2", "0">>, <<"1", "2", "5">>,
      <<"1", "3", "0">>, <<"2", "0", "0">> }

HcvKeys == ExampleVersions \cup { <<"1", "3", "0", "beta">>, <<"latest">> }

HcvConstraints ==
    { <<"^", "1", "2", "0">>, <<"~", "1", "2", "0">>, <<"1", "2", "5">>,
      <<">=", "1", "2", "5">>, <<"<", "1", "2", "0">>, <<"*">>,
      <<"^", "3", "0", "0">>, <<"=", "1", "3", "0">>, <<"nonsense!!">> }

InitHcv ==
    /\ PackageCache = << >>
    /\ mtx = 0
    /\ req = [r \in Requests |-> IdleRequest]
    /\ nodes = [n \in {} |-> 0]
    /\ faults = 0
    /\ \E c \in HcvConstraints, keys \in SUBSET HcvKeys :
          /\ Cardinality(keys) <= MaxKeys
          /\ hcv = [IdleHcv EXCEPT !.pc = "range", !.constraintStr = c,
                                   !.keys = keys]

\* for version := range pkgMeta.Versions: the next key, in the map's order
HcvRange ==
    /\ hcv.pc = "range"
    /\ \E key \in hcv.keys \ {hcv.order[i] : i \in 1..Len(hcv.order)} :
          hcv' = [hcv EXCEPT !.order = Append(@, key)]
    /\ UNCHANGED <<PackageCache, mtx, req, nodes, faults>>

\* the call returns
HcvReturn ==
    /\ hcv.pc = "range"
    /\ Len(hcv.order) = Cardinality(hcv.keys)
    /\ LET res == highestCompatibleVersion(hcv.constraintStr, hcv.order)
       IN  hcv' = [hcv EXCEPT !.pc = "done", !.version = res.version,
                              !.err = res.err]
    /\ UNCHANGED <<PackageCache, mtx, req, nodes, faults>>

NextHcv == HcvRange \/ HcvReturn

SpecHcv == InitHcv /\ [][NextHcv]_vars

(***************************************************************************)
(* Properties of highestCompatibleVersion                                  *)
(***************************************************************************)

\* the versions among the keys that satisfy the parsed constraint
Satisfying(constraintStr, keys) ==
    {NewVersion(k).v : k \in {x \in keys :
        NewVersion(x).ok /\ Check(NewConstraint(constraintStr), NewVersion(x).v)}}

IsMaximum(v, versions) ==
    v \in versions /\ \A w \in versions : Compare(w, v) <= 0

\* C1: for every constraint that parses and every set of advertised
\* versions, highestCompatibleVersion returns the maximum under semver
\* ordering of the versions that satisfy the constraint, and the
\* "no compatible versions" error exactly when no version satisfies it.
C1_ReturnsMaximum ==
    (hcv.pc = "done" /\ NewConstraint(hcv.constraintStr).ok) =>
        LET sat == Satisfying(hcv.constraintStr, hcv.keys)
        IN  /\ (hcv.err = "NoCompatibleVersion") <=> (sat = {})
            /\ sat # {} =>
                  /\ hcv.err = "nil"
                  /\ NewVersion(hcv.version).ok
                  /\ IsMaximum(NewVersion(hcv.version).v, sat)
                  /\ hcv.version \in hcv.keys

\* a call that returned the greatest of at least three satisfying versions
C1_Witness ==
    /\ hcv.pc = "done"
    /\ hcv.err = "nil"
    /\ Cardinality(Satisfying(hcv.constraintStr, hcv.keys)) >= 3
    /\ Cardinality(hcv.keys) > Cardinality(Satisfying(hcv.constraintStr, hcv.keys))

IsExample ==
    /\ hcv.pc = "done"
    /\ hcv.constraintStr = <<"^", "1", "2", "0">>
    /\ hcv.keys = ExampleVersions

\* C2 as stated: ^1.2.0 against {1.1.9, 1.2.0, 1.2.5, 1.3.0, 2.0.0} yields
\* 1.2.5.
C2_Original == IsExample => hcv.version = <<"1", "2", "5">>

\* C2 as amended: ^1.2.0 against {1.1.9, 1.2.0, 1.2.5, 1.3.0, 2.0.0} yields
\* 1.3.0, the greatest version below 2.0.0, without error.
C2_ExampleYields130 ==
    IsExample => (hcv.version = <<"1", "3", "0">> /\ hcv.err = "nil")

\* the example call has returned, whatever order the map was ranged in
C2_Witness == IsExample /\ hcv.order[1] = <<"2", "0", "0">>


(***************************************************************************)
(* Properties of the resolution engine                                     *)
(***************************************************************************)

\* the nodes allocated for request r: its root and all descendants
NodesOf(r) == {n \in DOMAIN nodes : n.req = r}

\* the request went through the miss branch and is past wg.Wait()
PastWait(r) ==
    \/ req[r].pc \in {"store", "append", "respond"}
    \/ req[r].pc = "done" /\ req[r].cachepkg = Nil

Terminal(n) == nodes[n].pc = "done"

Failed(n) == Terminal(n) /\ nodes[n].err # "nil"

\* C3: in every interleaving a request is past wg.Wait() (storing,
\* serializing or done) only when every node created for its tree, the
\* root and all transitive descendants, is terminal: none is running and
\* none is still to be started.
C3_WaitCoversTree ==
    \A r \in Requests : PastWait(r) => \A n \in NodesOf(r) : Terminal(n)

\* a request is past its wait with a tree of depth two whose nodes ran
\* concurrently
C3_Witness ==
    \E r \in Requests :
        /\ req[r].pc = "store"
        /\ Cardinality(NodesOf(r)) = 4
        /\ \E n \in NodesOf(r) : Len(n.path) = 2 /\ nodes[n].err = "nil"

\* C4 as stated: whenever resolution of a node ends in a failure of any
\* kind, the node is left with an empty version and an empty dependency map.
C4_Original ==
    \A n \in DOMAIN nodes :
        Failed(n) => /\ nodes[n].Version = EmptyString
                     /\ DOMAIN nodes[n].Dependencies = {}

\* C5 (state part): a request that resolved its tree answers 200 with its
\* own root, has stored that root and has waited for every node, whether or
\* not nodes of the tree (the root included) failed.
C5_Answered ==
    \A r \in Requests :
        (req[r].pc = "done" /\ req[r].cachepkg = Nil) =>
            /\ req[r].status = 200
            /\ req[r].body = RootOf(r)
            /\ \E i \in 1..Len(PackageCache) : PackageCache[i] = RootOf(r)
            /\ \A n \in NodesOf(r) : Terminal(n)

\* C5 (step part): the step in which a node fails changes no other node and
\* does not move the handler.
C5_FailureStep ==
    \A n \in DOMAIN nodes :
        (~Terminal(n) /\ nodes'[n].pc = "done" /\ nodes'[n].err # "nil") =>
            /\ \A m \in DOMAIN nodes \ {n} : nodes'[m] = nodes[m]
            /\ DOMAIN nodes' = DOMAIN nodes
            /\ req'[n.req].pc = req[n.req].pc
            /\ \A r \in Requests \ {n.req} : req'[r] = req[r]
            /\ PackageCache' = PackageCache

\* C5: a failure at any node (the root included) does not stop or cancel
\* the resolution of any other node and is never reported to the caller:
\* the request still waits for all nodes, stores the tree and answers 200.
C5_FailureNotReported == [](C5_Answered) /\ [][C5_FailureStep]_vars

\* one request answered 200 for a tree in which a node failed beside a
\* resolved sibling, another answered 200 for a tree whose root failed
C5_Witness ==
    \E r, q \in Requests :
        /\ req[r].pc = "done" /\ req[r].status = 200
        /\ \E n, m \in NodesOf(r) :
              /\ Len(n.path) = 2 /\ Len(m.path) = 2
              /\ Failed(n)
              /\ Terminal(m) /\ nodes[m].err = "nil" /\ nodes[m].Version # EmptyString
        /\ req[q].pc = "done" /\ req[q].status = 200
        /\ req[q].cachepkg = Nil
        /\ Failed(RootOf(q))


\* C6 as stated: a node's constraint string is parsed successfully before
\* any registry fetch is issued for the node; a node whose constraint is
\* malformed fails with an invalid-constraint error after zero fetch calls.
C6_Original ==
    \A n \in DOMAIN nodes :
        /\ nodes[n].gets > 0 => NewConstraint(nodes[n].versionConstraint).ok
        /\ nodes[n].err = "InvalidConstraint" => nodes[n].gets = 0

\* C6 as amended: a node's constraint string is parsed after the node's
\* metadata fetch and before its manifest fetch: the manifest fetch is
\* issued only for a constraint that parsed, and a node whose constraint is
\* malformed fails with an invalid-constraint error after exactly one fetch
\* call, the answered metadata fetch.
C6_ParsedBeforeManifest ==
    \A n \in DOMAIN nodes :
        /\ nodes[n].manifestRes # "none" =>
              NewConstraint(nodes[n].versionConstraint).ok
        /\ nodes[n].err = "InvalidConstraint" =>
              /\ ~NewConstraint(nodes[n].versionConstraint).ok
              /\ nodes[n].gets = 1
              /\ nodes[n].metaRes = "ok"
              /\ nodes[n].manifestRes = "none"
        /\ (Terminal(n) /\ nodes[n].metaRes = "ok"
              /\ ~NewConstraint(nodes[n].versionConstraint).ok) =>
              nodes[n].err = "InvalidConstraint"

\* a root and a dependency, each with the constraint "nonsense!!", have
\* failed with the invalid-constraint error
C6_Witness ==
    \E n, m \in DOMAIN nodes :
        /\ n.path = << >> /\ m.path # << >>
        /\ nodes[n].versionConstraint = <<"nonsense!!">>
        /\ nodes[m].versionConstraint = <<"nonsense!!">>
        /\ nodes[n].err = "InvalidConstraint"
        /\ nodes[m].err = "InvalidConstraint"

\* no registry call made for the tree of this root failed
FaultFree(root) ==
    \A n \in NodesOf(root.req) :
        /\ nodes[n].metaRes \in {"none", "ok"}
        /\ nodes[n].manifestRes \in {"none", "ok"}

\* the version a constraint resolves to for a package of the registry
ResolvesTo(name, constraintStr) ==
    highestCompatibleVersion(constraintStr,
        CHOOSE o \in Orders(RegistryVersions(name)) : TRUE)

\* the cache holds a tree of package pkgName, resolved without any failed
\* registry call, in the version the constraint pkgVersion resolves to
StoredMatch(pkgName, pkgVersion) ==
    \E i \in 1..Len(PackageCache) :
        /\ nodes[PackageCache[i]].Name = pkgName
        /\ nodes[PackageCache[i]].err = "nil"
        /\ FaultFree(PackageCache[i])
        /\ ResolvesTo(pkgName, pkgVersion).err = "nil"
        /\ ResolvesTo(pkgName, pkgVersion).version = nodes[PackageCache[i]].Version

\* the lookup of request r, made while a matching tree is stored, hits
C7_LookupStep ==
    \A r \in Requests :
        (/\ req[r].pc = "scan"
         /\ req'[r].pc # "scan"
         /\ StoredMatch(req[r].pkgName, req[r].pkgVersion)) =>
            /\ req'[r].pc = "hit"
            /\ nodes'[req'[r].cachepkg].Name = req[r].pkgName
            /\ nodes'[req'[r].cachepkg].Version =
                  ResolvesTo(req[r].pkgName, req[r].pkgVersion).version

\* C7 as stated: once a request for package P has been resolved and stored,
\* any later request for P whose constraint resolves to the stored entry's
\* version, whatever its constraint string, is answered with the stored
\* tree and issues no registry fetch.
C7_Original == [][C7_LookupStep]_vars

RECURSIVE SumGets(_)
SumGets(S) ==
    IF S = {} THEN 0
    ELSE LET n == CHOOSE x \in S : TRUE
         IN  nodes[n].gets + SumGets(S \ {n})

\* the http.Get calls issued for the tree of request r
TotalGets(r) == SumGets(NodesOf(r))

\* C8 as stated: when a top-level resolution has completed, the registry
\* fetch calls it issued number exactly 2 times the nodes of its tree.
C8_Original ==
    \A r \in Requests :
        PastWait(r) => TotalGets(r) = 2 * Cardinality(NodesOf(r))

\* the node failed before its manifest fetch: at the metadata fetch or at
\* the selection of the version
FailedEarly(n) ==
    \/ nodes[n].metaRes \in {"transport", "decode"}
    \/ nodes[n].err \in {"InvalidConstraint", "NoCompatibleVersion"}

\* C8 as amended: when a top-level resolution has completed, the registry
\* fetch calls it issued number 2 for every node that reached its manifest
\* fetch and 1 for every node that failed before it (metadata fetch
\* failure, invalid constraint, no compatible version), in every scheduling
\* order and with no sharing between occurrences of the same package.
C8_FetchCount ==
    \A r \in Requests :
        PastWait(r) =>
            TotalGets(r) = 2 * Cardinality(NodesOf(r))
                             - Cardinality({n \in NodesOf(r) : FailedEarly(n)})

\* a resolution of four nodes has completed, one of them failed early
C8_Witness ==
    \E r \in Requests :
        /\ PastWait(r)
        /\ Cardinality(NodesOf(r)) = 4
        /\ Cardinality({n \in NodesOf(r) : FailedEarly(n)}) = 1
        /\ TotalGets(r) = 7

\* C9 as stated: in the tree of a completed resolution every node with a
\* resolved version has exactly the dependency names of the registry
\* manifest of its name and version as keys, and every node with an empty
\* version has an empty dependency map.
C9_Original ==
    \A r \in Requests :
        PastWait(r) =>
            \A n \in NodesOf(r) :
                IF nodes[n].Version # EmptyString
                THEN DOMAIN nodes[n].Dependencies =
                        DOMAIN RegistryManifest(nodes[n].Name, nodes[n].Version)
                ELSE DOMAIN nodes[n].Dependencies = {}

\* the tree below a pointer: names, versions and dependency keys
RECURSIVE TreeShape(_)
TreeShape(n) ==
    [name |-> nodes[n].Name, version |-> nodes[n].Version,
     dependencies |-> [d \in DOMAIN nodes[n].Dependencies |->
                          TreeShape(nodes[n].Dependencies[d])]]

Answered(r) == req[r].pc = "done"

\* C10: with no fetch failures, two resolutions of the same (name,
\* constraint) end with structurally identical trees, whatever the
\* interleaving of the units of work and the iteration order of the maps.
C10_Deterministic ==
    \A r, q \in Requests :
        (/\ Answered(r) /\ Answered(q)
         /\ req[r].pkgName = req[q].pkgName
         /\ req[r].pkgVersion = req[q].pkgVersion
         /\ FaultFree(req[r].body) /\ FaultFree(req[q].body)) =>
            TreeShape(req[r].body) = TreeShape(req[q].body)

\* two requests with the same input each built a tree of four nodes
C10_Witness ==
    \E r, q \in Requests :
        /\ r # q
        /\ Answered(r) /\ Answered(q)
        /\ req[r].pkgName = req[q].pkgName
        /\ req[r].pkgVersion = req[q].pkgVersion
        /\ req[r].body = RootOf(r) /\ req[q].body = RootOf(q)
        /\ FaultFree(RootOf(r)) /\ FaultFree(RootOf(q))
        /\ Cardinality(NodesOf(r)) = 4 /\ Cardinality(NodesOf(q)) = 4


(***************************************************************************)
(* Properties of the cache and of the completion counter                   *)
(***************************************************************************)

\* the roots stored in the cache
Stored == {PackageCache[i] : i \in 1..Len(PackageCache)}

\* no node of the tree below a stored root is written or added in the step
C11_StoredStep ==
    \A root \in Stored :
        /\ NodesOf(root.req) = {n \in DOMAIN nodes' : n.req = root.req}
        /\ \A n \in NodesOf(root.req) : nodes'[n] = nodes[n]

\* every stored tree is complete, and a hit carries a stored tree
C11_StoredComplete ==
    /\ \A root \in Stored : \A n \in NodesOf(root.req) : Terminal(n)
    /\ \A r \in Requests :
          req[r].cachepkg # Nil =>
              /\ req[r].cachepkg \in Stored
              /\ req[r].pc = "done" => req[r].body = req[r].cachepkg

\* C11: once a tree has been appended to the cache no later step of any
\* request writes a node of it, so a request served by a hit reads a
\* complete tree, never a partially built one, and returns the stored tree.
C11_StoredImmutable == [](C11_StoredComplete) /\ [][C11_StoredStep]_vars

\* a request is answered by a hit on a stored tree of four nodes while the
\* other request has gone on after storing it
C11_Witness ==
    \E r \in Requests :
        /\ req[r].pc = "done"
        /\ req[r].cachepkg # Nil
        /\ Cardinality(NodesOf(req[r].cachepkg.req)) = 4


Packages == {"a", "b", "c", "d", "e"}

\* the packages some version of a package declares as dependencies
DeclaredBy(name) ==
    UNION {DOMAIN RegistryManifest(name, v) : v \in RegistryVersions(name)}

\* the packages reachable from a set of packages in at most k declarations
RECURSIVE ReachableIn(_, _)
ReachableIn(names, k) ==
    IF k = 0 THEN names
    ELSE ReachableIn(names \cup UNION {DeclaredBy(x) : x \in names}, k - 1)

Reachable(name) == ReachableIn({name}, Cardinality(Packages))

\* a package that reaches itself through declared dependencies
OnCycle(name) == name \in ReachableIn(DeclaredBy(name), Cardinality(Packages))

\* the declarations reachable from the package are acyclic
Acyclic(name) == \A x \in Reachable(name) : ~OnCycle(x)

AcyclicPackages == {x \in Packages : Acyclic(x)}

\* C12: for a registry whose dependency declarations reachable from the
\* root are acyclic, under fair scheduling and with every fetch returning,
\* every top-level resolution eventually completes: the completion counter
\* is back at zero and the request responds.
C12_Completes ==
    \A r \in Requests :
        (req[r].pc # "idle" /\ req[r].pkgName \in AcyclicPackages) ~>
            (req[r].pc = "done" /\ req[r].status = 200 /\ req[r].wg = 0)

\* a request for an acyclic package has responded after resolving a tree
\* of four nodes
C12_Witness ==
    \E r \in Requests :
        /\ req[r].pkgName \in AcyclicPackages
        /\ req[r].pc = "done" /\ req[r].cachepkg = Nil /\ req[r].wg = 0
        /\ Cardinality(NodesOf(r)) = 4


\* the request resolves a package that is on a dependency cycle and no
\* registry call made for its tree has failed
ResolvingCycle(r) ==
    /\ req[r].pc # "idle"
    /\ OnCycle(req[r].pkgName)
    /\ FaultFree(RootOf(r))

\* C13: when the registry declares a dependency cycle reachable from the
\* root through satisfiable constraints and no fetch fails, resolution goes
\* on starting children: every node whose call has returned has left a
\* child behind, so some node of the tree is always still running or still
\* to be started, and the request never gets past its wait nor responds.
C13_CycleNeverCompletes ==
    \A r \in Requests :
        ResolvingCycle(r) =>
            /\ ~PastWait(r)
            /\ req[r].pc \notin {"hit", "done"}
            /\ req[r].pc = "resolving" =>
                  /\ req[r].wg > 0
                  /\ \E n \in NodesOf(r) : ~Terminal(n)
            /\ \A n \in NodesOf(r) :
                  Terminal(n) =>
                      /\ nodes[n].err = "nil"
                      /\ \E dependencyName \in Packages :
                            ChildOf(n, dependencyName) \in NodesOf(r)

\* the cycle has been followed down to the depth the model allows: the
\* calls for the root and for its child have returned, the request waits
C13_Witness ==
    \E r \in Requests :
        /\ ResolvingCycle(r)
        /\ req[r].pc = "resolving"
        /\ Cardinality(NodesOf(r)) = MaxDepth + 1
        /\ Cardinality({n \in NodesOf(r) : Terminal(n)}) = MaxDepth
        /\ \A n \in NodesOf(r) : nodes[n].Name = req[r].pkgName


\* a registry call made for the node failed, in transport or in decoding
FetchFailed(n) ==
    \/ nodes[n].metaRes \in {"transport", "decode"}
    \/ nodes[n].manifestRes \in {"transport", "decode"}

\* C14 as stated: every transport failure and every decode failure of a
\* registry call, of the metadata fetch and of the manifest fetch alike,
\* makes the node's resolution fail with a fetch error; a manifest response
\* that does not decode is never taken for a manifest without dependencies.
C14_Original ==
    \A n \in DOMAIN nodes :
        /\ (Terminal(n) /\ FetchFailed(n)) => nodes[n].err = "FetchError"
        /\ nodes[n].manifestRes = "decode" => nodes[n].pc \notin {"range", "go"}


\* the units of work of request r that are counted in and have not
\* finished: the calls of resolveDependencies that run or are about to be
\* started by a go statement
Unfinished(r) == {n \in NodesOf(r) : ~Terminal(n)}

\* C15: in every reachable state the completion counter of a request
\* equals the number of its units of work that have been counted in (the
\* root before its call, each child before its goroutine is started) and
\* have not finished; it is never negative, and it is positive while a
\* call that will still add children is running, a child being counted
\* before its parent is counted out.
C15_CounterExact ==
    \A r \in Requests :
        /\ req[r].wg = Cardinality(Unfinished(r))
        /\ req[r].wg >= 0
        /\ \A n \in NodesOf(r) :
              /\ nodes[n].pc \in {"range", "go"} /\ nodes[n].todo # {}
                    => req[r].wg > 0
              /\ Terminal(n) =>
                    \A dependencyName \in DOMAIN nodes[n].Dependencies :
                        nodes[n].Dependencies[dependencyName] \in NodesOf(r)

\* the root's call has returned while three of its descendants are counted
\* in, one of them not yet started
C15_Witness ==
    \E r \in Requests :
        /\ req[r].wg = 3
        /\ Terminal(RootOf(r))
        /\ \E n \in NodesOf(r) : nodes[n].pc = "new"


\* the node whose call created node n (n is not a root)
ParentOf(n) == Ptr(n.req, SubSeq(n.path, 1, Len(n.path) - 1))

\* every node that is not a root is in the dependency map of its parent,
\* under its name, from its allocation on: before its call is started
C16_InsertedBeforeStart ==
    \A n \in DOMAIN nodes :
        n.path # << >> =>
            /\ ParentOf(n) \in DOMAIN nodes
            /\ n.path[Len(n.path)] \in DOMAIN nodes[ParentOf(n)].Dependencies
            /\ nodes[ParentOf(n)].Dependencies[n.path[Len(n.path)]] = n
            /\ nodes[ParentOf(n)].pc \in {"go", "range", "done"}
            /\ nodes[n].pc = "new" => nodes[ParentOf(n)].pc = "go"

\* the nodes whose version or dependency map the step writes
Written == {n \in DOMAIN nodes :
               \/ nodes'[n].Version # nodes[n].Version
               \/ nodes'[n].Dependencies # nodes[n].Dependencies}

\* a step writes the version and the dependency map of at most one node,
\* from the call that resolves this node: the version where the call
\* assigns pkg.Version, the map in its range; a node is allocated empty
C16_SingleWriterStep ==
    /\ Cardinality(Written) <= 1
    /\ \A n \in Written :
          /\ nodes'[n].Version # nodes[n].Version =>
                nodes[n].pc = "resolve" /\ nodes'[n].pc = "manifest"
          /\ nodes'[n].Dependencies # nodes[n].Dependencies =>
                nodes[n].pc = "range" /\ nodes'[n].pc = "go"
    /\ \A n \in DOMAIN nodes' \ DOMAIN nodes :
          /\ nodes'[n].Version = EmptyString
          /\ DOMAIN nodes'[n].Dependencies = {}

\* C16: a child is inserted into its parent's dependency map by the
\* parent's call before the child's call is started, and in every
\* interleaving the version and the dependency map of a node are written
\* only by the one call that resolves this node.
C16_SingleWriter == [](C16_InsertedBeforeStart) /\ [][C16_SingleWriterStep]_vars

\* a child is in its parent's map and not yet started while a sibling of
\* it runs concurrently with the parent
C16_Witness ==
    \E n, m \in DOMAIN nodes :
        /\ n # m /\ n.path # << >> /\ m.path # << >>
        /\ ParentOf(n) = ParentOf(m)
        /\ nodes[n].pc = "new"
        /\ nodes[m].pc \in {"meta", "resolve", "manifest"}
        /\ nodes[ParentOf(n)].Dependencies[n.path[Len(n.path)]] = n


\* the request is inside GetPackageFromCache or AddPackageToCache, past
\* mtx.Lock()
InCache(r) == req[r].pc \in {"scan", "append"}

\* C17: the cache lock is held only inside the lookup scan and the append:
\* at most one request is inside GetPackageFromCache or AddPackageToCache
\* at a time, and no request holds the lock while any of its resolution
\* work is in flight, so a resolution in progress never keeps another
\* request from its lookup or store.
C17_LockOnlyInCache ==
    /\ mtx \in {0} \cup Requests
    /\ \A r \in Requests :
          /\ InCache(r) <=> mtx = r
          /\ mtx = r => Unfinished(r) = {} /\ req[r].wg = 0
          /\ Unfinished(r) # {} => req[r].pc = "resolving" /\ mtx # r
    /\ Cardinality({r \in Requests : InCache(r)}) <= 1

\* one request is inside the append while the other has resolution work
\* in flight
C17_Witness ==
    \E r, q \in Requests :
        /\ req[r].pc = "append" /\ mtx = r
        /\ req[q].pc = "resolving" /\ Unfinished(q) # {}
        /\ \E n \in Unfinished(q) : nodes[n].pc = "manifest"


\* C18 as stated: after any sequence of requests, sequential or
\* concurrent, the cache never holds two entries with the same pair of
\* name and resolved version.
C18_Original ==
    \A i, j \in 1..Len(PackageCache) :
        /\ i # j
        /\ nodes[PackageCache[i]].Version # EmptyString
        /\ nodes[PackageCache[i]].Name = nodes[PackageCache[j]].Name
        => nodes[PackageCache[i]].Version # nodes[PackageCache[j]].Version


\* C19 as stated: every tree stored in the cache has a root whose version
\* is resolved (non-empty); a request whose root resolution failed does not
\* add an entry to the cache.
C19_Original ==
    \A root \in Stored :
        /\ nodes[root].Version # EmptyString
        /\ nodes[root].err = "nil"

\* a step that changes the counter of one request leaves the other
\* requests and their nodes as they are
C20_CounterStep ==
    \A r, q \in Requests :
        (r # q /\ req'[r].wg # req[r].wg) =>
            /\ req'[q] = req[q]
            /\ \A n \in NodesOf(q) : nodes'[n] = nodes[n]
            /\ NodesOf(q) = {n \in DOMAIN nodes' : n.req = q}

\* a request whose own calls have all returned is let through its wait
C20_OwnTreeSuffices ==
    \A r \in Requests :
        (/\ req[r].pc = "resolving"
         /\ RootOf(r) \in DOMAIN nodes
         /\ Unfinished(r) = {}) => WaitPasses(r)

\* C20: each top-level request has its own completion counter: with two
\* requests resolving concurrently, a request passes its wait as soon as
\* every node of its own tree is terminal, whether or not the other request
\* still has units of work in flight, and the increments and decrements of
\* one request never change the counter of the other.
C20_OwnCounter == [](C20_OwnTreeSuffices) /\ [][C20_CounterStep]_vars

\* a request is past its wait while the other request, which arrived
\* before it, still has calls in flight
C20_Witness ==
    \E r, q \in Requests :
        /\ q < r
        /\ req[r].pc = "store" /\ Cardinality(NodesOf(r)) > 1
        /\ req[q].pc = "resolving" /\ req[q].wg > 1

====
